---- MODULE Spec2Model ----
(***************************************************************************)
(* Range-check gadgets of halo2-circuits.                                  *)
(*                                                                         *)
(*   range_check.rs   RangeCheckCircuitConfig: the polynomial gadget, one   *)
(*                    gate "range" = q * value * (1-value) ... (R-1-value)  *)
(*   range_lookup.rs  RangeTableConfig + RangeCheckLookupConfig: the lookup *)
(*                    gadget, lookup (q * value, table.value)               *)
(*                                                                         *)
(* One behaviour is one circuit: Init picks the gadget and the const        *)
(* generic RANGE, the actions are configure, load, assign, assign_lookup.   *)
(* The layouter is the environment: each of its region operations either    *)
(* succeeds or returns an error chosen by the environment.                  *)
(***************************************************************************)
EXTENDS Integers, Sequences, FiniteSets, TLC

VARIABLES gadget, RANGE, phase, cs, config, q_enable, advice, table, loaded,
          loadFault, nextRow, calls

vars == <<gadget, RANGE, phase, cs, config, q_enable, advice, table, loaded,
          loadFault, nextRow, calls>>

\* ------------------------------------------------------------------ bounds
\* Largest const generic RANGE a behaviour is instantiated with.
MaxRange == 3
\* Largest number of assign / assign_lookup calls in one synthesis.
MaxCalls == 2

\* ------------------------------------------------------------------- field
\* F: FieldExt, a prime field.  The tests use pasta::Fp; the model uses a
\* small prime that still exceeds every RANGE (usize < |Fp| in the program).
Modulus == 5

Field == 0 .. (Modulus - 1)

\* F::from(i as u64): the canonical injection.
FFrom(i) == i % Modulus

FAdd(a, b) == (a + b) % Modulus
FNeg(a) == (Modulus - a) % Modulus
FMul(a, b) == (a * b) % Modulus

\* ------------------------------------------------------------- expressions
\* plonk::Expression<F>, the variants the gadgets build.  `a - b` is
\* Sum(a, Negated(b)) and `a * b` is Product(a, b), as in halo2's operator
\* impls for Expression.
Constant(c) == [tag |-> "Constant", c |-> c]
AdviceQuery == [tag |-> "Advice"]
SelectorQuery == [tag |-> "Selector"]
Negated(e) == [tag |-> "Negated", e |-> e]
Sum(a, b) == [tag |-> "Sum", l |-> a, r |-> b]
Product(a, b) == [tag |-> "Product", l |-> a, r |-> b]

\* Expression::evaluate at one row: q is the selector's value at the row,
\* v the value column's.
RECURSIVE Eval(_, _, _)
Eval(e, q, v) ==
    CASE e.tag = "Constant" -> e.c
      [] e.tag = "Advice"   -> v
      [] e.tag = "Selector" -> q
      [] e.tag = "Negated"  -> FNeg(Eval(e.e, q, v))
      [] e.tag = "Sum"      -> FAdd(Eval(e.l, q, v), Eval(e.r, q, v))
      [] e.tag = "Product"  -> FMul(Eval(e.l, q, v), Eval(e.r, q, v))

\* The closure range_check of configure: value folded with (i - value) for
\* i in 1..range-1.  The assert!(range > 0) is the guard of Configure.
RECURSIVE RangeFold(_, _, _, _)
RangeFold(i, range, expr, value) ==
    IF i >= range THEN expr
    ELSE RangeFold(i + 1, range,
                   Product(expr, Sum(Constant(FFrom(i)), Negated(value))),
                   value)

\* Faulty variants of range_check: the fold started from the constant 1, run
\* to range inclusive, or started at i = 2.
RangeCheckFromOne(range, value) ==
    RangeFold(1, range, Constant(1), value)
RangeCheckInclusive(range, value) ==
    RangeFold(1, range + 1, value, value)
RangeCheckFromTwo(range, value) ==
    RangeFold(2, range, value, value)
range_check(range, value) ==
    RangeFold(1, range, value, value)

\* assert!(range > 0) inside range_check (and the variant without it).
RangeAssertNone(range) == TRUE
RangeAssert(range) == range > 0

\* The input expression of the lookup: q_lookup * v (and the faulty
\* variants q_lookup + v and v alone).
LookupInputSum == Sum(SelectorQuery, AdviceQuery)
LookupInputNoSelector == AdviceQuery
LookupInput == Product(SelectorQuery, AdviceQuery)

\* ------------------------------------------- polynomials in the value variable
\* A polynomial is its coefficient sequence, p[k] the coefficient of
\* value^(k-1), in the field.
PolyCoeff(p, k) == IF k \in 1 .. Len(p) THEN p[k] ELSE 0

PolyAdd(p, r) ==
    LET n == IF Len(p) > Len(r) THEN Len(p) ELSE Len(r)
    IN  [k \in 1 .. n |-> FAdd(PolyCoeff(p, k), PolyCoeff(r, k))]

RECURSIVE ConvSum(_, _, _, _)
ConvSum(p, r, k, j) ==
    IF j > k THEN 0
    ELSE FAdd(FMul(PolyCoeff(p, j), PolyCoeff(r, k + 1 - j)),
              ConvSum(p, r, k, j + 1))

PolyMul(p, r) ==
    IF Len(p) = 0 \/ Len(r) = 0 THEN << >>
    ELSE [k \in 1 .. (Len(p) + Len(r) - 1) |-> ConvSum(p, r, k, 1)]

\* The expression as a polynomial in the value column's query (no selector).
RECURSIVE Coeffs(_)
Coeffs(e) ==
    CASE e.tag = "Constant" -> <<e.c>>
      [] e.tag = "Advice"   -> <<0, 1>>
      [] e.tag = "Negated"  -> [k \in 1 .. Len(Coeffs(e.e)) |-> FNeg(Coeffs(e.e)[k])]
      [] e.tag = "Sum"      -> PolyAdd(Coeffs(e.l), Coeffs(e.r))
      [] e.tag = "Product"  -> PolyMul(Coeffs(e.l), Coeffs(e.r))

\* Degree of a coefficient sequence: the largest power with a nonzero
\* coefficient, -1 for the zero polynomial.
RECURSIVE PolyDegree(_)
PolyDegree(p) ==
    IF Len(p) = 0 THEN 0 - 1
    ELSE IF p[Len(p)] # 0 THEN Len(p) - 1
    ELSE PolyDegree(SubSeq(p, 1, Len(p) - 1))

\* ------------------------------------------------------------- environment
\* plonk::Error values a region operation can return.
Errors == {"Synthesis", "NotEnoughRowsAvailable"}

NoFault == [step |-> "none", err |-> "none"]
\* What the layouter does to one assign call: nothing, or fail one step.
RegionFaults ==
    {NoFault} \cup [step : {"enable", "assign_advice"}, err : Errors]

\* The empty constraint system handed to Circuit::configure.
EmptyCS ==
    [num_selectors |-> 0, num_advice_columns |-> 0, num_table_columns |-> 0,
     gates |-> << >>, lookups |-> << >>]

Init ==
    /\ gadget \in {"poly", "lookup"}
    /\ RANGE \in 0 .. MaxRange
    /\ phase = "new"
    /\ cs = EmptyCS
    /\ config = << >>
    /\ q_enable = {}
    /\ advice = << >>
    /\ table = << >>
    /\ loaded = "none"
    /\ loadFault = << >>
    /\ nextRow = 0
    /\ calls = << >>

\* --------------------------------------------------- polynomial gadget
\* RangeCheckCircuitConfig::configure (with the advice column its caller
\* allocates).  cs.selector() runs before create_gate; the gate's closure is
\* run by create_gate, so the assert of range_check fires inside configure.
Configure ==
    /\ gadget = "poly"
    /\ phase = "new"
    /\ IF RangeAssert(RANGE)
       THEN /\ cs' = [cs EXCEPT
                        !.num_advice_columns = @ + 1,
                        !.num_selectors = @ + 1,
                        !.gates = Append(@,
                            [name |-> "range",
                             polys |-> <<Product(SelectorQuery,
                                            range_check(RANGE, AdviceQuery))>>])]
            /\ config' = <<[value |-> cs.num_advice_columns,
                            q_enable |-> cs.num_selectors]>>
            /\ phase' = "configured"
       ELSE /\ cs' = [cs EXCEPT !.num_advice_columns = @ + 1,
                                !.num_selectors = @ + 1]
            /\ config' = << >>
            /\ phase' = "panicked"
    /\ UNCHANGED <<gadget, RANGE, q_enable, advice, table, loaded, loadFault, nextRow, calls>>

\* The region closure of assign: enable q at offset 0, then assign the
\* advice cell at offset 0; `?` returns at the first failing step.
\* The result is the selector rows, the advice cells and the call's result.
\* (AssignBodyNoEnable: the faulty variant that never enables q.)
AssignBodyNoEnable(sel, adv, row, value, fault) ==
    IF fault.step = "assign_advice"
    THEN [q |-> sel, advice |-> adv, res |-> fault.err, cell |-> << >>]
    ELSE [q |-> sel,
          advice |-> [r \in (DOMAIN adv) \cup {row} |->
                        IF r = row THEN value ELSE adv[r]],
          res |-> "Ok", cell |-> <<row>>]
AssignBody(sel, adv, row, value, fault) ==
    IF fault.step = "enable"
    THEN [q |-> sel, advice |-> adv, res |-> fault.err, cell |-> << >>]
    ELSE IF fault.step = "assign_advice"
    THEN [q |-> sel \cup {row}, advice |-> adv, res |-> fault.err, cell |-> << >>]
    ELSE [q |-> sel \cup {row},
          advice |-> [r \in (DOMAIN adv) \cup {row} |->
                        IF r = row THEN value ELSE adv[r]],
          res |-> "Ok", cell |-> <<row>>]

\* RangeCheckCircuitConfig::assign: one fresh region per call, offset 0.
Assign(value, fault) ==
    /\ gadget = "poly"
    /\ phase = "configured"
    /\ nextRow < MaxCalls
    /\ LET offset == 0
           out == AssignBody(q_enable, advice, nextRow + offset, value, fault)
       IN  /\ q_enable' = out.q
           /\ advice' = out.advice
           /\ calls' = Append(calls,
                 [op |-> "assign", value |-> value, region |-> nextRow,
                  fault |-> fault, res |-> out.res, cell |-> out.cell])
    /\ nextRow' = nextRow + 1
    /\ UNCHANGED <<gadget, RANGE, phase, cs, config, table, loaded, loadFault>>

\* ------------------------------------------------------------ range table
\* The loop of RangeTableConfig::load from index i on: assign_cell at
\* offset i with F::from(i); `?` leaves the loop at the first failing cell.
\* tbl is the sequence of <<offset, value>> cells written so far.
\* (LoadLoopFromOne writes F::from(i + 1), LoadLoopInclusive runs to RANGE
\* inclusive: faulty variants.)
RECURSIVE LoadLoopFromOne(_, _, _, _)
LoadLoopFromOne(i, tbl, failAt, err) ==
    IF i >= RANGE THEN [table |-> tbl, res |-> "Ok"]
    ELSE IF i = failAt THEN [table |-> tbl, res |-> err]
    ELSE LoadLoopFromOne(i + 1, Append(tbl, <<i, FFrom(i + 1)>>), failAt, err)
RECURSIVE LoadLoopInclusive(_, _, _, _)
LoadLoopInclusive(i, tbl, failAt, err) ==
    IF i > RANGE THEN [table |-> tbl, res |-> "Ok"]
    ELSE IF i = failAt /\ i < RANGE THEN [table |-> tbl, res |-> err]
    ELSE LoadLoopInclusive(i + 1, Append(tbl, <<i, FFrom(i)>>), failAt, err)
RECURSIVE LoadLoop(_, _, _, _)
LoadLoop(i, tbl, failAt, err) ==
    IF i >= RANGE THEN [table |-> tbl, res |-> "Ok"]
    ELSE IF i = failAt THEN [table |-> tbl, res |-> err]
    ELSE LoadLoop(i + 1, Append(tbl, <<i, FFrom(i)>>), failAt, err)

\* RangeTableConfig::load.  failAt is the index whose assign_cell the
\* layouter fails (RANGE: none).  layouter.assign_table itself returns
\* Error::Synthesis for a table in which no cell was assigned.
Load(failAt, err) ==
    /\ gadget = "lookup"
    /\ phase = "configured"
    /\ loaded = "none"
    /\ LET out == LoadLoop(0, << >>, failAt, err)
       IN  /\ table' = out.table
           /\ loaded' = IF out.res = "Ok" /\ Len(out.table) = 0
                        THEN "Synthesis" ELSE out.res
    /\ loadFault' = <<failAt, err>>
    /\ UNCHANGED <<gadget, RANGE, phase, cs, config, q_enable, advice, nextRow, calls>>

\* ---------------------------------------------------------- lookup gadget
\* RangeCheckLookupConfig::configure (with the advice column its caller
\* allocates): a complex selector, RangeTableConfig::configure's table
\* column, and the lookup (q_lookup * v, table.value).
ConfigureLookup ==
    /\ gadget = "lookup"
    /\ phase = "new"
    /\ cs' = [cs EXCEPT
                !.num_advice_columns = @ + 1,
                !.num_selectors = @ + 1,
                !.num_table_columns = @ + 1,
                !.lookups = Append(@, [input |-> LookupInput,
                                       table |-> cs.num_table_columns])]
    /\ config' = <<[values |-> cs.num_advice_columns,
                    q_enable |-> cs.num_selectors,
                    table |-> [value |-> cs.num_table_columns]]>>
    /\ phase' = "configured"
    /\ UNCHANGED <<gadget, RANGE, q_enable, advice, table, loaded, loadFault, nextRow, calls>>

\* The region closure of assign_lookup: enable q at offset 0, then assign
\* the advice cell at offset 0.
\* (AssignLookupBodyNoStop: the faulty variant that goes on after a failed
\* enable.)
AssignLookupBodyNoStop(sel, adv, row, val, fault) ==
    IF fault.step = "assign_advice"
    THEN [q |-> sel \cup {row}, advice |-> adv, res |-> fault.err, cell |-> << >>]
    ELSE [q |-> IF fault.step = "enable" THEN sel ELSE sel \cup {row},
          advice |-> [r \in (DOMAIN adv) \cup {row} |->
                        IF r = row THEN val ELSE adv[r]],
          res |-> IF fault.step = "enable" THEN fault.err ELSE "Ok",
          cell |-> IF fault.step = "enable" THEN << >> ELSE <<row>>]
AssignLookupBody(sel, adv, row, val, fault) ==
    IF fault.step = "enable"
    THEN [q |-> sel, advice |-> adv, res |-> fault.err, cell |-> << >>]
    ELSE IF fault.step = "assign_advice"
    THEN [q |-> sel \cup {row}, advice |-> adv, res |-> fault.err, cell |-> << >>]
    ELSE [q |-> sel \cup {row},
          advice |-> [r \in (DOMAIN adv) \cup {row} |->
                        IF r = row THEN val ELSE adv[r]],
          res |-> "Ok", cell |-> <<row>>]

\* RangeCheckLookupConfig::assign_lookup: one fresh region per call.
AssignLookup(val, fault) ==
    /\ gadget = "lookup"
    /\ phase = "configured"
    /\ nextRow < MaxCalls
    /\ LET offset == 0
           out == AssignLookupBody(q_enable, advice, nextRow + offset, val, fault)
       IN  /\ q_enable' = out.q
           /\ advice' = out.advice
           /\ calls' = Append(calls,
                 [op |-> "assign_lookup", value |-> val, region |-> nextRow,
                  fault |-> fault, res |-> out.res, cell |-> out.cell])
    /\ nextRow' = nextRow + 1
    /\ UNCHANGED <<gadget, RANGE, phase, cs, config, table, loaded, loadFault>>

\* ------------------------------------------------------------ verification
\* MockProver::verify over the rows of the circuit: the region rows and one
\* row no region uses.  A selector is 1 where enabled and 0 elsewhere, an
\* unassigned advice cell evaluates to 0.
Rows == 0 .. MaxCalls
SelValue(row) == IF row \in q_enable THEN 1 ELSE 0
CellValue(row) == IF row \in DOMAIN advice THEN advice[row] ELSE 0

\* The value of gate g's k-th polynomial at a row.
GateResidual(g, k, row) == Eval(cs.gates[g].polys[k], SelValue(row), CellValue(row))

\* A gate holds at a row: the cell it queries is assigned where the gate is
\* enabled (else CellNotAssigned) and every polynomial evaluates to zero
\* (else ConstraintNotSatisfied).
GateSatisfiedAt(g, row) ==
    /\ row \in q_enable => row \in DOMAIN advice
    /\ \A k \in 1 .. Len(cs.gates[g].polys) : GateResidual(g, k, row) = 0

\* The values held by the table column.  assign_table pads the column with
\* the cell at offset 0, which adds no value.
TableValues == {table[k][2] : k \in 1 .. Len(table)}

\* The value of lookup l's input expression at a row.
LookupInputAt(l, row) == Eval(cs.lookups[l].input, SelValue(row), CellValue(row))

\* A lookup holds at a row: the input's value is in the table column.
LookupSatisfiedAt(l, row) == LookupInputAt(l, row) \in TableValues

\* prover.verify() is Ok / assert_satisfied() does not panic.
Verify ==
    \A row \in Rows :
        /\ \A g \in 1 .. Len(cs.gates) : GateSatisfiedAt(g, row)
        /\ \A l \in 1 .. Len(cs.lookups) : LookupSatisfiedAt(l, row)

\* ------------------------------------------------------------------ helpers
\* The integers 0..RANGE-1 as field elements.
InRange(v) == \E i \in 0 .. (RANGE - 1) : v = i % Modulus
AllOk == \A k \in 1 .. Len(calls) : calls[k].res = "Ok"

Next ==
    \/ Configure
    \/ \E value \in Field, fault \in RegionFaults : Assign(value, fault)
    \/ ConfigureLookup
    \/ \E failAt \in 0 .. RANGE :
         \E err \in (IF failAt = RANGE THEN {"none"} ELSE Errors) :
            Load(failAt, err)
    \/ \E val \in Field, fault \in RegionFaults : AssignLookup(val, fault)

Spec == Init /\ [][Next]_vars

\* =================================================================== claims
PolyConfigured == gadget = "poly" /\ phase = "configured"
LookupLoaded == gadget = "lookup" /\ phase = "configured" /\ loaded = "Ok"

\* The expression registered as the gate "range", without the selector
\* factor that Constraints::with_selector multiplies in.
RangeExpr == cs.gates[1].polys[1].r

\* C1: completeness of the polynomial gadget.  Every successful assign of a
\* value v with 0 <= v < RANGE leaves v in its row with q enabled and the
\* gate "range" evaluating to zero there; when every call succeeded with an
\* in-range value the constraint system is satisfied.
C1_Completeness ==
    PolyConfigured =>
        /\ \A k \in 1 .. Len(calls) :
              (calls[k].res = "Ok" /\ InRange(calls[k].value)) =>
                  LET row == calls[k].cell[1]
                  IN  /\ row \in q_enable
                      /\ advice[row] = calls[k].value
                      /\ GateResidual(1, 1, row) = 0
        /\ (AllOk /\ \A k \in 1 .. Len(calls) : InRange(calls[k].value)) => Verify

C1_Witness ==
    /\ PolyConfigured
    /\ RANGE >= 3
    /\ Len(calls) = MaxCalls
    /\ AllOk
    /\ \E k \in 1 .. Len(calls) : calls[k].value = 0
    /\ \E k \in 1 .. Len(calls) : calls[k].value = RANGE - 1
    /\ Verify

\* C2: soundness of the polynomial gadget (Modulus > RANGE).  Assigning a
\* field element outside 0..RANGE-1 fails only if the layouter fails; a
\* successful one leaves a nonzero residual at its row, where q is enabled,
\* so verification fails.  The zero set of the gate polynomial is exactly
\* 0..RANGE-1.
C2_Soundness ==
    (PolyConfigured /\ Modulus > RANGE) =>
        /\ \A k \in 1 .. Len(calls) :
              ~InRange(calls[k].value) =>
                  /\ calls[k].fault = NoFault => calls[k].res = "Ok"
                  /\ calls[k].res = "Ok" =>
                        LET row == calls[k].cell[1]
                        IN  /\ row \in q_enable
                            /\ GateResidual(1, 1, row) # 0
                            /\ ~Verify
        /\ \A x \in Field : (Eval(RangeExpr, 1, x) = 0) <=> (x \in 0 .. (RANGE - 1))

C2_Witness ==
    /\ PolyConfigured
    /\ RANGE >= 2
    /\ \E k \in 1 .. Len(calls) : calls[k].res = "Ok" /\ calls[k].value = RANGE
    /\ \E k \in 1 .. Len(calls) : calls[k].res = "Ok" /\ InRange(calls[k].value)
    /\ ~Verify

\* C6 as stated: the gate "range" has degree exactly RANGE - 1 in the value
\* variable.
C6_DegreeRangeMinusOne ==
    PolyConfigured => PolyDegree(Coeffs(RangeExpr)) = RANGE - 1

\* C6 (amended): the expression registered as the gate "range", before the
\* selector is multiplied in, has degree exactly RANGE in the value variable:
\* the fold starts from value and multiplies in RANGE - 1 linear factors.
C6_DegreeRange ==
    PolyConfigured => PolyDegree(Coeffs(RangeExpr)) = RANGE

C6_Witness ==
    /\ PolyConfigured
    /\ RANGE = MaxRange
    /\ PolyDegree(Coeffs(RangeExpr)) = MaxRange

\* C7: configure of the polynomial gadget with RANGE = 0 panics on the
\* assertion: no Config is returned and no assign follows.  With RANGE > 0
\* it succeeds and registers exactly one selector and one gate.
C7_ConfigureAssert ==
    (gadget = "poly" /\ phase # "new") =>
        IF RANGE = 0
        THEN /\ phase = "panicked"
             /\ config = << >>
             /\ Len(cs.gates) = 0
             /\ calls = << >>
        ELSE /\ phase = "configured"
             /\ Len(config) = 1
             /\ cs.num_selectors = 1
             /\ Len(cs.gates) = 1
             /\ cs.gates[1].name = "range"
             /\ Len(cs.gates[1].polys) = 1

C7_Witness ==
    /\ gadget = "poly"
    /\ RANGE = 0
    /\ phase = "panicked"

\* C3: completeness of the lookup gadget.  With the table loaded, every
\* successful assign_lookup of an in-range value has its value in the row of
\* its own region with q enabled and its lookup input q*value in the table;
\* when every call succeeded with an in-range value, the calls occupy
\* distinct rows and the constraint system is satisfied.
C3_LookupCompleteness ==
    LookupLoaded =>
        /\ \A k \in 1 .. Len(calls) :
              (calls[k].res = "Ok" /\ InRange(calls[k].value)) =>
                  LET row == calls[k].cell[1]
                  IN  /\ row = calls[k].region
                      /\ row \in q_enable
                      /\ advice[row] = calls[k].value
                      /\ LookupInputAt(1, row) = calls[k].value
                      /\ LookupSatisfiedAt(1, row)
        /\ (AllOk /\ \A k \in 1 .. Len(calls) : InRange(calls[k].value)) =>
              /\ Cardinality({calls[k].cell[1] : k \in 1 .. Len(calls)}) = Len(calls)
              /\ \A row \in q_enable : LookupSatisfiedAt(1, row)
              /\ Verify

C3_Witness ==
    /\ LookupLoaded
    /\ RANGE >= 3
    /\ Len(calls) = MaxCalls
    /\ AllOk
    /\ \E k \in 1 .. Len(calls) : calls[k].value = 0
    /\ \E k \in 1 .. Len(calls) : calls[k].value = RANGE - 1
    /\ Verify

\* C4: soundness of the lookup gadget.  With the table loaded, a successful
\* assign_lookup of a field element outside 0..RANGE-1 leaves an active row
\* whose lookup input matches no table cell, and verification fails whatever
\* the other values are.
C4_LookupSoundness ==
    LookupLoaded =>
        \A k \in 1 .. Len(calls) :
            (calls[k].res = "Ok" /\ ~InRange(calls[k].value)) =>
                LET row == calls[k].cell[1]
                IN  /\ row \in q_enable
                    /\ LookupInputAt(1, row) = calls[k].value
                    /\ \A j \in 1 .. Len(table) : table[j][2] # LookupInputAt(1, row)
                    /\ ~Verify

C4_Witness ==
    /\ LookupLoaded
    /\ RANGE >= 2
    /\ \E k \in 1 .. Len(calls) : calls[k].res = "Ok" /\ calls[k].value = RANGE
    /\ \E k \in 1 .. Len(calls) : calls[k].res = "Ok" /\ InRange(calls[k].value)
    /\ ~Verify

\* C5: table integrity.  After a successful load the table column holds
\* exactly RANGE cells, the i-th at offset i holding the field element i,
\* in increasing order, all distinct, and nothing else.
C5_TableIntegrity ==
    (gadget = "lookup" /\ loaded = "Ok") =>
        /\ Len(table) = RANGE
        /\ \A i \in 0 .. (RANGE - 1) : table[i + 1] = <<i, i % Modulus>>
        /\ \A i, j \in 1 .. Len(table) : table[i][2] = table[j][2] => i = j
        /\ TableValues = {i % Modulus : i \in 0 .. (RANGE - 1)}

C5_Witness ==
    /\ gadget = "lookup"
    /\ loaded = "Ok"
    /\ RANGE = MaxRange
    /\ Len(table) = MaxRange

\* C8: inactive rows never violate the lookup.  With the table loaded and
\* RANGE >= 1, at a row where q is not enabled the lookup input is 0 for
\* every field element the advice cell could hold, 0 is in the table, and a
\* row that fails the lookup is a row enabled by assign_lookup.
C8_InactiveRows ==
    (LookupLoaded /\ RANGE >= 1) =>
        /\ 0 \in TableValues
        /\ \A row \in Rows \ q_enable :
              /\ \A x \in Field : Eval(cs.lookups[1].input, SelValue(row), x) = 0
              /\ LookupSatisfiedAt(1, row)
        /\ \A row \in Rows :
              ~LookupSatisfiedAt(1, row) =>
                  /\ row \in q_enable
                  /\ \E k \in 1 .. Len(calls) :
                        calls[k].op = "assign_lookup" /\ calls[k].region = row

C8_Witness ==
    /\ LookupLoaded
    /\ RANGE >= 1
    /\ \E row \in Rows \ q_enable : row \in DOMAIN advice \/ row < nextRow
    /\ \E row \in q_enable : ~LookupSatisfiedAt(1, row)

\* C9: error propagation without recovery.  A step in which the layouter
\* fails a region operation of assign, assign_lookup or load returns the
\* layouter's error, writes nothing after the failing operation (a failed
\* enable writes neither selector nor advice cell, a failed advice
\* assignment writes no advice cell, a failed table cell ends the loop with
\* the cells before it) and leaves the constraint system and the Config
\* as configure built them.
C9_Step ==
    /\ (Len(calls') = Len(calls) + 1 /\ calls'[Len(calls')].fault # NoFault) =>
          LET c == calls'[Len(calls')]
          IN  /\ c.res = c.fault.err
              /\ c.cell = << >>
              /\ advice' = advice
              /\ c.fault.step = "enable" => q_enable' = q_enable
              /\ table' = table
              /\ cs' = cs
              /\ config' = config
    /\ (loaded = "none" /\ loaded' # "none" /\ loadFault'[1] < RANGE) =>
          /\ loaded' = loadFault'[2]
          /\ Len(table') = loadFault'[1]
          /\ \A i \in 1 .. Len(table') : table'[i][1] = i - 1
          /\ q_enable' = q_enable
          /\ advice' = advice
          /\ cs' = cs
          /\ config' = config

C9_ErrorPropagation == [][C9_Step]_vars

C9_Witness ==
    /\ gadget = "lookup"
    /\ loaded \in Errors
    /\ Len(table) >= 1
    /\ \E k \in 1 .. Len(calls) : calls[k].fault.step = "enable"
    /\ \E k \in 1 .. Len(calls) : calls[k].fault.step = "assign_advice"

\* C10: no assigned value escapes the check.  Every successful assign or
\* assign_lookup returns a handle for the cell at offset 0 of its own
\* region, a row where the value is written and q is enabled; every advice
\* cell lies on a row with q enabled; after only successful calls the rows
\* holding a value are exactly the rows with q enabled, one per call.
C10_NoEscape ==
    /\ \A k \in 1 .. Len(calls) :
          calls[k].res = "Ok" =>
              /\ calls[k].cell = <<calls[k].region>>
              /\ calls[k].region \in q_enable
              /\ calls[k].region \in DOMAIN advice
              /\ advice[calls[k].region] = calls[k].value
              /\ \A j \in 1 .. Len(calls) : j # k => calls[j].region # calls[k].region
    /\ \A k \in 1 .. Len(calls) : calls[k].res # "Ok" => calls[k].cell = << >>
    /\ DOMAIN advice \subseteq q_enable
    /\ AllOk =>
          /\ DOMAIN advice = q_enable
          /\ Cardinality(q_enable) = Len(calls)

C10_Witness ==
    /\ Len(calls) = MaxCalls
    /\ AllOk
    /\ Cardinality(q_enable) = MaxCalls
    /\ DOMAIN advice = q_enable

====
